---- MODULE Spec2Model ----
(***************************************************************************)
(* Model of tools/run_pipeline.py: one run of the script is                *)
(*   check credential -> submit -> poll (bounded) -> record -> convert.    *)
(* The remote service, the HEAD target, the file system and the external   *)
(* conversion script are the environment: their answers are drawn with \E. *)
(***************************************************************************)
EXTENDS Integers, Sequences, FiniteSets, TLC

\* ------------------------------------------------------------------ bounds
\* max_attempts is 60 in the script; the model runs it over 1..MaxAttemptsBound.
MaxAttemptsBound == 3
\* Number of consecutive invocations of the script over the same models.json.
MaxRuns == 2
\* Lines of the project.pbxproj the manifest patcher starts from.
MaxLines == 3
\* Number of consecutive invocations of add_build_phase.py on one project.
MaxPatchRuns == 2

\* Python None, also an absent JSON field (dict.get without the key).
None == "<None>"

\* Python truthiness of an Optional[str]: None and '' are falsy.
Truthy(x) == x # None /\ x # ""

\* dict.get(key, default)
Get(v, default) == IF v = None THEN default ELSE v

\* --------------------------------------------------------- the environment
TaskIds == {"T1", "T2"}
Urls == {"https://h/m.glb"}

\* What the HEAD request of validate_file would be answered with, were it sent:
\* a status code, or "fail" for a transport failure.
HeadOutcomes == {"200", "404", "fail"}

\* Answers to POST /dreams/3d.
SubmitResponses ==
    {[transport |-> "fail", code |-> 0, taskId |-> None]}
    \cup {[transport |-> "ok", code |-> c, taskId |-> None] : c \in {201, 500}}
    \cup {[transport |-> "ok", code |-> 200, taskId |-> t] : t \in TaskIds \cup {None, ""}}

\* Answers to GET /dreams/3d/{task_id}: a transport failure, or an HTTP response
\* with a status code and (for 200) a JSON object body.
BodyLess(t, c) ==
    [transport |-> t, code |-> c, status |-> None, downloadUrl |-> None, format |-> None]

StatusBody(s, u, f) ==
    [transport |-> "ok", code |-> 200, status |-> s, downloadUrl |-> u, format |-> f]

StatusResponses ==
    {BodyLess("fail", 0), BodyLess("ok", 204), BodyLess("ok", 500)}
    \cup {StatusBody(s, None, None) :
            s \in {None, "pending", "processing", "queued", "failed"}}
    \cup {StatusBody(s, u, f) :
            s \in {"completed", "COMPLETED"}, u \in Urls \cup {None, ""}, f \in {None, "glb"}}

\* ------------------------------------------------------------------- state
VARIABLES
    pc,            \* position of the script: check, submit, poll, sleep, polled, convert, exit
    run,           \* number of the current invocation (1..MaxRuns); stands for the clock
    apiKey,        \* BACKEND_API_KEY is set
    convertFlag,   \* '--convert' in sys.argv
    exitCode,      \* process exit status, read once pc = "exit" (0 until sys.exit(1))
    task_id,       \* main: task_id
    max_attempts,  \* poll_task_status: max_attempts
    attempt,       \* poll_task_status: loop variable (0-based)
    final_status,  \* poll_task_status: returned dict / main: final_status
    responses,     \* history: answers the status queries of this poll got
    events,        \* history: "query" / "validate" / "sleep", in order, of this poll
    headSeen,      \* history: what the HEAD target would have answered
    store,         \* AppAssets/models.json: Missing, Corrupt or [models |-> <<...>>]
    written,       \* history: records passed to successful write_models_json calls
    submits,       \* history: job-creation requests sent in this run
    submitted,     \* history: the answer the job-creation request of this run got
    polls,         \* history: poll sessions started in this run
    writes,        \* history: write_models_json calls made in this run
    recorded,      \* history: write_models_json calls that succeeded in this run
    conversions,   \* history: run_convert_script calls in this run
    convert_result,\* history: what run_convert_script met and reported (NoConvert if not called)
    \* tools/add_build_phase.py
    project,       \* project.pbxproj: [exists, lines]
    backup,        \* project.pbxproj.backup: [exists, lines]
    patchRuns,     \* history: calls of add_run_script_phase so far
    patchResult,   \* return value of the last call
    patchWrote,    \* history: the last call wrote project.pbxproj (reached 117)
    before,        \* history: project.pbxproj as the last call found it
    afterFirst     \* history: project.pbxproj as the first call left it

patchVars == <<project, backup, patchRuns, patchResult, patchWrote, before, afterFirst>>

pipelineVars == <<pc, run, apiKey, convertFlag, exitCode, task_id, max_attempts, attempt,
          final_status, responses, events, headSeen, store, written, submits, submitted,
          polls, writes, recorded, conversions, convert_result>>

vars == <<pipelineVars, patchVars>>

NoResult == [status |-> None]

\* No job-creation request was sent.
NoSubmit == [transport |-> None, code |-> 0, taskId |-> None]

\* models.json on disk: absent, unparsable (a truncated write), or a JSON document.
Missing == [file |-> "missing", models |-> <<>>]
Corrupt == [file |-> "corrupt", models |-> <<>>]
Document(ms) == [file |-> "json", models |-> ms]

\* ------------------------------------------------------------ urllib facts
\* urllib.request.Request.__init__ takes these keyword parameters and no other.
RequestParams == {"url", "data", "headers", "origin_req_host", "unverifiable", "method"}

\* urllib.request.urlopen with the default opener: a transport failure raises
\* URLError, and HTTPErrorProcessor raises HTTPError for every status outside 2xx.
urlopen(resp) ==
    IF resp.transport = "fail" THEN "raise"
    ELSE IF 200 <= resp.code /\ resp.code < 300 THEN "response"
    ELSE "raise"

\* str.lower() on the status strings of the model.
lower(s) ==
    CASE s = "COMPLETED" -> "completed"
      [] OTHER -> s

\* ------------------------------------------------------- validate_file (63-71)
\* Request(url, method='HEAD', timeout=10): constructing the request raises
\* TypeError when a keyword is not a parameter of Request, before anything is sent.
ValidateKwargs == {"method", "timeout"}

validate_file(url, head) ==
    IF ~(ValidateKwargs \subseteq RequestParams)
    THEN FALSE                      \* except Exception: return False
    ELSE IF head = "200" THEN TRUE  \* response.status == 200
    ELSE FALSE                      \* HTTPError / URLError: return False

\* ---------------------------------------------------- poll_task_status (118-196)
\* Off by one: the last attempt also counts as having a successor.
AttemptsRemainInclusive(att, maxa) == att < maxa

\* attempt < max_attempts - 1
AttemptsRemain(att, maxa) == att < maxa - 1

\* The 'failed' branch missing: 'failed' joins the statuses that are retried.
StatusClassNoFailed(status) ==
    CASE status = "completed" -> "completed"
      [] status \in {"pending", "processing", "unknown", "failed"} -> "retry"
      [] OTHER -> "fallthrough"

\* The if / elif chain on the lower-cased status (139, 171, 175); a status that
\* matches no branch falls through to the end of the loop body.
StatusClass(status) ==
    CASE status = "completed" -> "completed"
      [] status = "failed" -> "failed"
      [] status \in {"pending", "processing", "unknown"} -> "retry"
      [] OTHER -> "fallthrough"

\* The dict returned for a 'completed' status (140-169).
CompletedResult(download_url, file_format, head) ==
    IF Truthy(download_url)
    THEN IF validate_file(download_url, head)
         THEN [status |-> "completed", download_url |-> download_url,
               format |-> file_format]
         ELSE [status |-> "completed", download_url |-> download_url,
               format |-> file_format, validation_failed |-> TRUE]
    ELSE [status |-> "completed", download_url |-> None, format |-> file_format]

Step(act, result, validated) == [act |-> act, result |-> result, validated |-> validated]

\* The body of the for loop for one attempt, given the answer to the query:
\* act is "return" (with result), "sleep" (time.sleep then continue) or
\* "fallthrough" (end of the loop body reached without sleeping).
PollIteration(att, maxa, resp, head) ==
    IF urlopen(resp) = "raise"
    THEN IF AttemptsRemain(att, maxa)
         THEN Step("sleep", NoResult, FALSE)
         ELSE Step("return", [status |-> "network_error"], FALSE)
    ELSE IF resp.code = 200
    THEN LET status == lower(Get(resp.status, "unknown"))
             class == StatusClass(status)
         IN  CASE class = "completed" ->
                    Step("return",
                         CompletedResult(resp.downloadUrl, Get(resp.format, "unknown"), head),
                         Truthy(resp.downloadUrl))
               [] class = "failed" -> Step("return", [status |-> "failed"], FALSE)
               [] class = "retry" ->
                    IF AttemptsRemain(att, maxa)
                    THEN Step("sleep", NoResult, FALSE)
                    ELSE Step("return", [status |-> "timeout"], FALSE)
               [] OTHER -> Step("fallthrough", NoResult, FALSE)
    ELSE Step("return", [status |-> "error", http_status |-> resp.code], FALSE)


\* poll_task_status as a function of the answers it gets: the loop run over
\* resps from attempt att on, counting the sleeps.
RECURSIVE PollRun(_, _, _, _, _)
PollRun(resps, att, maxa, head, slept) ==
    IF att >= maxa THEN [result |-> [status |-> "unknown_error"], sleeps |-> slept]
    ELSE IF resps = <<>> THEN [result |-> NoResult, sleeps |-> slept]
    ELSE LET it == PollIteration(att, maxa, Head(resps), head)
         IN  CASE it.act = "return" -> [result |-> it.result, sleeps |-> slept]
               [] it.act = "sleep" -> PollRun(Tail(resps), att + 1, maxa, head, slept + 1)
               [] OTHER -> PollRun(Tail(resps), att + 1, maxa, head, slept)

\* -------------------------------------------- submit_generation_task (73-116)
\* The test of task_id (103) left out: whatever result.get('taskId') gives is
\* returned.
submit_generation_task_unchecked(resp) ==
    IF urlopen(resp) = "raise" THEN "raise"
    ELSE IF resp.code = 200 THEN resp.taskId
    ELSE "raise"

\* The task id returned, or "raise": one POST, no retry.
submit_generation_task(resp) ==
    IF urlopen(resp) = "raise" THEN "raise"
    ELSE IF resp.code = 200
    THEN IF Truthy(resp.taskId) THEN resp.taskId ELSE "raise"
    ELSE "raise"

\* ------------------------------------------------- write_models_json (198-222)
\* The existing collection is not loaded: the file is rewritten with the new
\* record alone.
write_models_json_overwrite(file, model_info, io) ==
    IF io = "read_error" \/ file = Corrupt
    THEN [file |-> file, raised |-> TRUE]
    ELSE IF io = "write_error"
         THEN [file |-> Corrupt, raised |-> TRUE]
         ELSE [file |-> Document(<<model_info>>), raised |-> FALSE]

\* io is what the file system does: "ok", "read_error" (mkdir / open / read fails:
\* nothing written) or "write_error" (the file is opened for writing, which
\* truncates it, and the dump fails).  The result is the file afterwards and
\* whether the call raised.
write_models_json(file, model_info, io) ==
    IF io = "read_error" \/ file = Corrupt
    THEN [file |-> file, raised |-> TRUE]
    ELSE LET existing == IF file = Missing THEN <<>> ELSE file.models
         IN  IF io = "write_error"
             THEN [file |-> Corrupt, raised |-> TRUE]
             ELSE [file |-> Document(Append(existing, model_info)), raised |-> FALSE]

\* ------------------------------------------------ run_convert_script (224-262)
\* exists: tools/convert.sh is there; proc: how the subprocess ends.
ConvertOutcomes == {"exit0", "exit1", "timeout", "oserror"}

\* The test for convert.sh (228) left out: the subprocess is started anyway
\* and its FileNotFoundError is caught at 260.
run_convert_script_unguarded(exists, proc) ==
    IF ~exists THEN [ok |-> FALSE, report |-> "run_error", invoked |-> TRUE]
    ELSE CASE proc = "exit0" -> [ok |-> TRUE, report |-> "success", invoked |-> TRUE]
           [] proc = "exit1" -> [ok |-> FALSE, report |-> "failed", invoked |-> TRUE]
           [] proc = "timeout" -> [ok |-> FALSE, report |-> "timed_out", invoked |-> TRUE]
           [] OTHER -> [ok |-> FALSE, report |-> "run_error", invoked |-> TRUE]

\* run_convert_script was not called.
NoConvert == [exists |-> FALSE, proc |-> None, ok |-> FALSE, report |-> None, invoked |-> FALSE]

run_convert_script(exists, proc) ==
    IF ~exists THEN [ok |-> FALSE, report |-> "not_found", invoked |-> FALSE]
    ELSE CASE proc = "exit0" -> [ok |-> TRUE, report |-> "success", invoked |-> TRUE]
           [] proc = "exit1" -> [ok |-> FALSE, report |-> "failed", invoked |-> TRUE]
           [] proc = "timeout" -> [ok |-> FALSE, report |-> "timed_out", invoked |-> TRUE]
           [] OTHER -> [ok |-> FALSE, report |-> "run_error", invoked |-> TRUE]

\* ------------------------------------------------------------- main (264-343)
\* The test of download_url (299) missing.
MainAcceptsAnyCompleted(fs) == fs.status = "completed"

\* final_status['status'] == 'completed' and download_url truthy (295, 299)
MainAccepts(fs) ==
    /\ fs.status = "completed"
    /\ Truthy(fs.download_url)

\* The url read from final_status under a key it does not have.
ModelInfoWrongKey(url, tid, now) ==
    [name |-> "dreamecho_model", url |-> None, timestamp |-> now, task_id |-> tid]

\* model_info (308-315); description and analysis are fixed literals of main.
ModelInfo(url, tid, now) ==
    [name |-> "dreamecho_model", url |-> url, timestamp |-> now, task_id |-> tid]

\* ------------------------------------------- add_build_phase.py (12-121)
\* phase_id: 24 hex digits of a fresh uuid4 (54).
PhaseIds == {"9F1A", "C07B"}

\* project.pbxproj is a sequence of lines; a line is known by the text the
\* patcher looks for in it:
\*   "resources"        contains '77D0401B2EC09A7B0004334C /* Resources */,'
\*   "begin_resources"  contains '/* Begin PBXResourcesBuildPhase section */'
\*   "shell"            contains 'PBXShellScriptBuildPhase' (a run-script phase
\*                      the project already has)
\*   "pattern"          contains the text of insert_pattern itself, with its
\*                      parentheses and backslashes
\*   "entry"            '<phase_id> /* Convert 3D Models */,' (71)
\*   "section"          the text of shell_script_section (77-98)
\*   "other"            none of these
Line(k, id) == [k |-> k, id |-> id]

InitialLines ==
    {Line(k, None) : k \in {"other", "resources", "begin_resources", "shell", "pattern"}}

NoFile == [exists |-> FALSE, lines |-> <<>>]
File(ls) == [exists |-> TRUE, lines |-> ls]

\* text in content, for the texts that mark the kinds of line
HasText(lines, kinds) == \E i \in 1..Len(lines) : lines[i].k \in kinds

\* 62-74: a build-phase entry is added after every Resources line.
RECURSIVE AddEntries(_, _)
AddEntries(lines, id) ==
    IF lines = <<>> THEN <<>>
    ELSE IF Head(lines).k = "resources"
         THEN <<Head(lines), Line("entry", id)>> \o AddEntries(Tail(lines), id)
         ELSE <<Head(lines)>> \o AddEntries(Tail(lines), id)

\* 104: content.replace(insert_pattern, shell_script_section + '\n' +
\* insert_pattern) is str.replace: it looks for the text of the pattern, not
\* for what the pattern matches.
RECURSIVE ReplacePattern(_, _)
ReplacePattern(lines, id) ==
    IF lines = <<>> THEN <<>>
    ELSE IF Head(lines).k = "pattern"
         THEN <<Line("section", id), Head(lines)>> \o ReplacePattern(Tail(lines), id)
         ELSE <<Head(lines)>> \o ReplacePattern(Tail(lines), id)

\* 12-121: the return value, whether project.pbxproj was written, and the two
\* files afterwards.
add_run_script_phase(proj, bak, id) ==
    IF ~proj.exists
    THEN [ret |-> FALSE, wrote |-> FALSE, project |-> proj, backup |-> bak]
    ELSE IF HasText(proj.lines, {"shell", "section"})
    THEN [ret |-> TRUE, wrote |-> FALSE, project |-> proj, backup |-> bak]
    ELSE LET withEntries == AddEntries(proj.lines, id)
         IN  IF HasText(withEntries, {"begin_resources"})
             THEN LET content == ReplacePattern(withEntries, id)
                  IN  [ret |-> TRUE, wrote |-> TRUE,
                       project |-> File(content), backup |-> File(content)]
             ELSE [ret |-> FALSE, wrote |-> FALSE, project |-> proj, backup |-> bak]

\* add_build_phase.py has not run.
PatcherIdle ==
    /\ project = NoFile
    /\ backup = NoFile
    /\ patchRuns = 0
    /\ patchResult = FALSE
    /\ patchWrote = FALSE
    /\ before = NoFile
    /\ afterFirst = NoFile

Init ==
    /\ PatcherIdle
    /\ pc = "check"
    /\ run = 1
    /\ apiKey \in BOOLEAN
    /\ convertFlag \in BOOLEAN
    /\ max_attempts \in 1..MaxAttemptsBound
    /\ exitCode = 0
    /\ task_id = None
    /\ attempt = 0
    /\ final_status = NoResult
    /\ responses = <<>>
    /\ events = <<>>
    /\ headSeen = None
    /\ store = Missing
    /\ written = <<>>
    /\ submits = 0
    /\ submitted = NoSubmit
    /\ polls = 0
    /\ writes = 0
    /\ recorded = 0
    /\ conversions = 0
    /\ convert_result = NoConvert

PollLocals == <<attempt, responses, events, headSeen>>
Env == <<run, apiKey, convertFlag, max_attempts>>
Counters == <<submits, submitted, polls, writes, recorded, conversions>>

\* The frame of poll_task_status is gone once main has used its result.
ResetPoll ==
    /\ attempt' = 0
    /\ responses' = <<>>
    /\ events' = <<>>
    /\ headSeen' = None

\* sys.exit(code)
Exit(code) ==
    /\ pc' = "exit"
    /\ exitCode' = code

\* The credential check left out: main goes on to submit without a key.
CheckConfigNoCheck ==
    /\ pc = "check"
    /\ pc' = "submit"
    /\ UNCHANGED patchVars
    /\ UNCHANGED <<Env, exitCode, task_id, final_status, PollLocals, store, written,
                   Counters, convert_result>>

\* 270-274: the credential check.
CheckConfig ==
    /\ pc = "check"
    /\ IF apiKey
       THEN pc' = "submit" /\ UNCHANGED exitCode
       ELSE Exit(1)
    /\ UNCHANGED patchVars
    /\ UNCHANGED <<Env, task_id, final_status, PollLocals, store, written, Counters,
                   convert_result>>

\* 289: task_id = submit_generation_task(...); an exception reaches 341-343.
Submit ==
    /\ pc = "submit"
    /\ \E resp \in SubmitResponses :
         LET r == submit_generation_task(resp)
         IN  /\ submitted' = resp
             /\ IF r = "raise"
                THEN Exit(1) /\ UNCHANGED <<task_id, polls>>
                ELSE /\ pc' = "poll"
                     /\ task_id' = r
                     /\ polls' = polls + 1
                     /\ UNCHANGED exitCode
    /\ submits' = submits + 1
    /\ UNCHANGED patchVars
    /\ UNCHANGED <<Env, final_status, PollLocals, store, written, writes, recorded,
                   conversions, convert_result>>

\* poll_task_status returns to main (293).
Return(result) ==
    /\ pc' = "polled"
    /\ final_status' = result

\* The loop without its bound (while True).
LoopNextUnbounded ==
    /\ attempt' = attempt + 1
    /\ pc' = "poll"
    /\ UNCHANGED final_status

\* for attempt in range(max_attempts): the next iteration, or the end of the
\* loop and line 196.
LoopNext ==
    /\ attempt' = attempt + 1
    /\ IF attempt + 1 < max_attempts
       THEN pc' = "poll" /\ UNCHANGED final_status
       ELSE Return([status |-> "unknown_error"])

\* 128-194: one status query and what the loop body does with the answer, up to
\* the return, the sleep or the end of the body.
PollQuery ==
    /\ pc = "poll"
    /\ \E resp \in StatusResponses, head \in HeadOutcomes :
         LET it == PollIteration(attempt, max_attempts, resp, head)
         IN  /\ responses' = Append(responses, resp)
             /\ events' = IF it.validated
                          THEN events \o <<"query", "validate">>
                          ELSE Append(events, "query")
             /\ headSeen' = IF it.validated THEN head ELSE headSeen
             \* the HEAD target matters only when the validator is called
             /\ it.validated \/ head = "200"
             /\ CASE it.act = "return" -> Return(it.result) /\ UNCHANGED attempt
                  [] it.act = "sleep" ->
                       pc' = "sleep" /\ UNCHANGED <<attempt, final_status>>
                  [] OTHER -> LoopNext
    /\ UNCHANGED patchVars
    /\ UNCHANGED <<Env, exitCode, task_id, store, written, Counters, convert_result>>

\* 177-178, 191-192: time.sleep(interval); continue.
PollSleep ==
    /\ pc = "sleep"
    /\ events' = Append(events, "sleep")
    /\ LoopNext
    /\ UNCHANGED patchVars
    /\ UNCHANGED <<Env, exitCode, task_id, responses, headSeen, store, written,
                   Counters, convert_result>>

\* The test of '--convert' (319) left out: the conversion always runs.
RecordAlwaysConverts ==
    /\ pc = "polled"
    /\ MainAccepts(final_status)
    /\ \E io \in {"ok", "read_error", "write_error"} :
         LET info == ModelInfo(final_status.download_url, task_id, run)
             w == write_models_json(store, info, io)
         IN  /\ store' = w.file
             /\ writes' = writes + 1
             /\ IF w.raised
                THEN Exit(1) /\ UNCHANGED <<written, recorded>>
                ELSE /\ written' = Append(written, info)
                     /\ recorded' = recorded + 1
                     /\ pc' = "convert"
                     /\ UNCHANGED exitCode
    /\ ResetPoll
    /\ UNCHANGED patchVars
    /\ UNCHANGED <<Env, task_id, final_status, submits, submitted, polls, conversions,
                   convert_result>>

\* 295-316: a completion with a reference is recorded; an exception of
\* write_models_json reaches 341-343.  319: conversion only with --convert.
Record ==
    /\ pc = "polled"
    /\ MainAccepts(final_status)
    /\ \E io \in {"ok", "read_error", "write_error"} :
         LET info == ModelInfo(final_status.download_url, task_id, run)
             w == write_models_json(store, info, io)
         IN  /\ store' = w.file
             /\ writes' = writes + 1
             /\ IF w.raised
                THEN Exit(1) /\ UNCHANGED <<written, recorded>>
                ELSE /\ written' = Append(written, info)
                     /\ recorded' = recorded + 1
                     /\ IF convertFlag
                        THEN pc' = "convert" /\ UNCHANGED exitCode
                        ELSE Exit(0)
    /\ ResetPoll
    /\ UNCHANGED patchVars
    /\ UNCHANGED <<Env, task_id, final_status, submits, submitted, polls, conversions,
                   convert_result>>

\* sys.exit(1) left out: main falls off its end and the process ends with 0.
RejectSilently ==
    /\ pc = "polled"
    /\ ~MainAccepts(final_status)
    /\ Exit(0)
    /\ ResetPoll
    /\ UNCHANGED patchVars
    /\ UNCHANGED <<Env, task_id, final_status, store, written, Counters, convert_result>>

\* 331-336: every other poll result is fatal.
Reject ==
    /\ pc = "polled"
    /\ ~MainAccepts(final_status)
    /\ Exit(1)
    /\ ResetPoll
    /\ UNCHANGED patchVars
    /\ UNCHANGED <<Env, task_id, final_status, store, written, Counters, convert_result>>

\* A failed conversion treated as fatal: sys.exit(1) when success is false.
ConvertFatal ==
    /\ pc = "convert"
    /\ \E exists \in BOOLEAN, proc \in ConvertOutcomes :
         LET c == run_convert_script(exists, proc)
         IN  /\ exists \/ proc = "exit0"
             /\ convert_result' = [exists |-> exists, proc |-> proc, ok |-> c.ok,
                                   report |-> c.report, invoked |-> c.invoked]
             /\ IF c.ok THEN Exit(0) ELSE Exit(1)
    /\ conversions' = conversions + 1
    /\ UNCHANGED patchVars
    /\ UNCHANGED <<Env, task_id, final_status, PollLocals, store, written, submits,
                   submitted, polls, writes, recorded>>

\* 319-329: run_convert_script, whose failure is only logged.
Convert ==
    /\ pc = "convert"
    /\ \E exists \in BOOLEAN, proc \in ConvertOutcomes :
         LET c == run_convert_script(exists, proc)
         IN  /\ exists \/ proc = "exit0"
             /\ convert_result' = [exists |-> exists, proc |-> proc, ok |-> c.ok,
                                   report |-> c.report, invoked |-> c.invoked]
    /\ conversions' = conversions + 1
    /\ Exit(0)
    /\ UNCHANGED patchVars
    /\ UNCHANGED <<Env, task_id, final_status, PollLocals, store, written, submits,
                   submitted, polls, writes, recorded>>

\* 338-340: KeyboardInterrupt while main is past the credential check.
Interrupt ==
    /\ pc \in {"submit", "poll", "sleep", "polled", "convert"}
    /\ Exit(1)
    /\ ResetPoll
    /\ UNCHANGED patchVars
    /\ UNCHANGED <<Env, task_id, final_status, store, written, Counters, convert_result>>

\* The script is started again: a new process over the same models.json.
NextRun ==
    /\ pc = "exit"
    /\ run < MaxRuns
    /\ run' = run + 1
    /\ pc' = "check"
    /\ apiKey' \in BOOLEAN
    /\ convertFlag' \in BOOLEAN
    /\ max_attempts' \in 1..MaxAttemptsBound
    /\ exitCode' = 0
    /\ task_id' = None
    /\ final_status' = NoResult
    /\ ResetPoll
    /\ submits' = 0
    /\ submitted' = NoSubmit
    /\ polls' = 0
    /\ writes' = 0
    /\ recorded' = 0
    /\ conversions' = 0
    /\ convert_result' = NoConvert
    /\ UNCHANGED <<store, written, patchVars>>

Next ==
    \/ CheckConfig
    \/ Submit
    \/ PollQuery
    \/ PollSleep
    \/ Record
    \/ Reject
    \/ Convert
    \/ Interrupt
    \/ NextRun

Spec == Init /\ [][Next]_vars

\* ------------------------------------------------ add_build_phase.py, runs
\* run_pipeline.py is not running.
PipelineIdle ==
    /\ pc = "idle"
    /\ run = 1
    /\ apiKey = FALSE
    /\ convertFlag = FALSE
    /\ max_attempts = 1
    /\ exitCode = 0
    /\ task_id = None
    /\ attempt = 0
    /\ final_status = NoResult
    /\ responses = <<>>
    /\ events = <<>>
    /\ headSeen = None
    /\ store = Missing
    /\ written = <<>>
    /\ submits = 0
    /\ submitted = NoSubmit
    /\ polls = 0
    /\ writes = 0
    /\ recorded = 0
    /\ conversions = 0
    /\ convert_result = NoConvert

InitPatch ==
    /\ PipelineIdle
    /\ project \in {NoFile} \cup
           {File(ls) : ls \in UNION {[1..n -> InitialLines] : n \in 0..MaxLines}}
    /\ backup = NoFile
    /\ patchRuns = 0
    /\ patchResult = FALSE
    /\ patchWrote = FALSE
    /\ before = NoFile
    /\ afterFirst = NoFile

\* 123-148: main calls add_run_script_phase on the project once per invocation.
PatchRun ==
    /\ patchRuns < MaxPatchRuns
    /\ \E id \in PhaseIds :
         LET r == add_run_script_phase(project, backup, id)
         IN  /\ project' = r.project
             /\ backup' = r.backup
             /\ patchResult' = r.ret
             /\ patchWrote' = r.wrote
             /\ afterFirst' = IF patchRuns = 0 THEN r.project ELSE afterFirst
    /\ before' = project
    /\ patchRuns' = patchRuns + 1
    /\ UNCHANGED pipelineVars

NextPatch == PatchRun

SpecPatch == InitPatch /\ [][NextPatch]_vars

\* =================================================================== claims
Count(seq, x) == Cardinality({i \in 1..Len(seq) : seq[i] = x})
Queries == Count(events, "query")
Sleeps == Count(events, "sleep")
LastResponse == responses[Len(responses)]
LastEvent == events[Len(events)]

\* query, sleep, query, ..., query: n queries with a sleep in each gap.
Alternating(n) == [i \in 1..(2 * n - 1) |-> IF i % 2 = 1 THEN "query" ELSE "sleep"]

IsPending(r) == r = StatusBody("pending", None, None)
AllPending == \A i \in 1..Len(responses) : IsPending(responses[i])

\* C1: when every status query is answered 200 'pending', poll_task_status
\* returns 'timeout' after exactly max_attempts queries and max_attempts - 1
\* sleeps, one in each gap between two queries and none after the last.
C1_AlwaysPendingTimesOut ==
    (pc = "polled" /\ AllPending) =>
        /\ Len(responses) = max_attempts
        /\ Queries = max_attempts
        /\ Sleeps = max_attempts - 1
        /\ events = Alternating(max_attempts)
        /\ final_status = [status |-> "timeout"]

C1_Witness ==
    /\ pc = "polled"
    /\ AllPending
    /\ max_attempts = MaxAttemptsBound
    /\ Len(responses) = max_attempts
    /\ final_status.status = "timeout"

\* A 200 answer whose status is none of the four the protocol names.
Unrecognized(r) ==
    /\ r.transport = "ok"
    /\ r.code = 200
    /\ lower(Get(r.status, "unknown")) \notin {"pending", "processing", "completed", "failed"}

AsPending(r) == IF Unrecognized(r) THEN StatusBody("pending", None, None) ELSE r

\* C2: an unrecognized status is treated as 'pending': with attempts exhausted
\* the outcome is 'timeout', and the poll returns the same result after the same
\* number of sleeps as it does on the answers with each unrecognized status
\* replaced by 'pending'.
C2_UnrecognizedLikePending ==
    pc = "polled" =>
        LET same == PollRun([i \in 1..Len(responses) |-> AsPending(responses[i])],
                            0, max_attempts, headSeen, 0)
        IN  /\ (Unrecognized(LastResponse) => final_status = [status |-> "timeout"])
            /\ same.result = final_status
            /\ same.sleeps = Sleeps

\* An HTTP response was received and its status code is not 200.
HttpNot200(r) == r.transport = "ok" /\ r.code # 200

\* C3: an HTTP response with a status code other than 200 ends the poll at that
\* attempt with outcome 'error' carrying the code: no sleep, no further query.
C3_Non200IsTerminalError ==
    \A i \in 1..Len(responses) :
        HttpNot200(responses[i]) =>
            /\ i = Len(responses)
            /\ pc = "polled"
            /\ LastEvent = "query"
            /\ final_status = [status |-> "error", http_status |-> responses[i].code]

\* No HTTP response came back for the query.
TransportFailed(r) == r.transport = "fail"

\* C4: a transport failure before the last attempt is followed by a sleep and a
\* retry; on the last attempt it gives 'network_error'; and 'network_error' is
\* returned only when the last attempt failed at transport level.
C4_NetworkErrorOnlyOnTransportFailure ==
    /\ (responses # <<>> /\ TransportFailed(LastResponse)) =>
            IF Len(responses) < max_attempts
            THEN pc = "sleep" \/ (pc = "poll" /\ LastEvent = "sleep")
            ELSE pc = "polled" /\ final_status = [status |-> "network_error"]
    /\ (pc = "polled" /\ final_status.status = "network_error") =>
            /\ Len(responses) = max_attempts
            /\ TransportFailed(LastResponse)

Completed(r) ==
    /\ r.transport = "ok"
    /\ r.code = 200
    /\ lower(Get(r.status, "unknown")) = "completed"

\* C5: 'completed' with a download URL is returned as status 'completed' with
\* that URL and format, without validation_failed when the link validates (its
\* HEAD is answered 200) and with validation_failed = true when it does not.
C5_CompletedKeptEitherWay ==
    (pc = "polled" /\ Completed(LastResponse) /\ Truthy(LastResponse.downloadUrl)) =>
        /\ final_status.status = "completed"
        /\ final_status.download_url = LastResponse.downloadUrl
        /\ final_status.format = Get(LastResponse.format, "unknown")
        /\ IF headSeen = "200"
           THEN "validation_failed" \notin DOMAIN final_status
           ELSE /\ "validation_failed" \in DOMAIN final_status
                /\ final_status.validation_failed = TRUE

\* C6: validate_file(url) is true exactly when the HEAD request to url is
\* answered with status 200 (and false, not an exception, otherwise).
C6_ValidateIffHead200 ==
    (pc = "polled" /\ headSeen # None) =>
        (validate_file(final_status.download_url, headSeen) <=> headSeen = "200")

Failed(r) ==
    /\ r.transport = "ok"
    /\ r.code = 200
    /\ lower(Get(r.status, "unknown")) = "failed"

\* C7: a 'failed' status ends the poll at the attempt that receives it, with
\* outcome 'failed', no sleep after it and no further query, whatever
\* max_attempts is; received first, it is returned on attempt 1 with no sleep.
C7_FailedShortCircuits ==
    \A i \in 1..Len(responses) :
        Failed(responses[i]) =>
            /\ i = Len(responses)
            /\ pc = "polled"
            /\ final_status = [status |-> "failed"]
            /\ LastEvent = "query"
            /\ (i = 1 => events = <<"query">>)

C7_Witness ==
    /\ pc = "polled"
    /\ max_attempts = MaxAttemptsBound
    /\ Len(responses) = 1
    /\ Failed(responses[1])
    /\ final_status.status = "failed"
    /\ events = <<"query">>

\* C8: 'completed' without a download URL is returned with a null reference,
\* and main then exits with code 1: write_models_json and run_convert_script
\* are not called and the run never ends with code 0.
C8_NoUrlIsFatal ==
    /\ (pc = "polled" /\ Completed(LastResponse) /\ ~Truthy(LastResponse.downloadUrl)) =>
            final_status = [status |-> "completed", download_url |-> None,
                            format |-> Get(LastResponse.format, "unknown")]
    /\ (final_status.status = "completed" /\ ~Truthy(final_status.download_url)) =>
            /\ pc \in {"polled", "exit"}
            /\ writes = 0
            /\ recorded = 0
            /\ conversions = 0
            /\ (pc = "exit" => exitCode = 1)

C8_Witness ==
    /\ pc = "exit"
    /\ exitCode = 1
    /\ final_status.status = "completed"
    /\ final_status.download_url = None
    /\ writes = 0
    /\ conversions = 0

\* C9: every record in models.json has a non-empty url and task id, and the
\* file changes only in a run whose poll returned 'completed' with a reference;
\* the record then appended carries that reference and that run's task id.
C9_RecordsComeFromCompletedTasks ==
    /\ [](\A i \in 1..Len(store.models) :
             Truthy(store.models[i].url) /\ Truthy(store.models[i].task_id))
    /\ [][store' # store =>
            /\ pc = "polled"
            /\ final_status.status = "completed"
            /\ Truthy(final_status.download_url)
            /\ task_id \in TaskIds
            /\ store'.file = "json" =>
                   /\ Len(store'.models) = Len(store.models) + 1
                   /\ store'.models[Len(store'.models)].url = final_status.download_url
                   /\ store'.models[Len(store'.models)].task_id = task_id]_vars

C9_Witness ==
    /\ recorded = 1
    /\ store.file = "json"
    /\ Len(store.models) >= 1
    /\ store.models[Len(store.models)].task_id = task_id
    /\ final_status.status = "completed"

\* C10: a successful write_models_json call appends its record at the end and
\* leaves the earlier entries and their order as they were; starting from a
\* missing file the collection is exactly the records written, in call order.
C10_AppendsExactlyOne ==
    /\ [](store.file = "json" => store.models = written)
    /\ [][recorded' = recorded + 1 =>
            /\ store'.file = "json"
            /\ Len(store'.models) = Len(store.models) + 1
            /\ SubSeq(store'.models, 1, Len(store.models)) = store.models
            /\ store'.models[Len(store'.models)] = written'[Len(written')]]_vars

C10_Witness ==
    /\ store.file = "json"
    /\ Len(store.models) = 2
    /\ store.models[1] # store.models[2]
    /\ store.models = written

\* C11: a poll outcome other than 'completed' ends the run with exit code 1,
\* no write_models_json call and no conversion; the run ends with code 0 only
\* after a 'completed' outcome with a reference whose record was persisted.
C11_OnlyCompletedSucceeds ==
    /\ final_status.status \notin {None, "completed"} =>
            /\ pc \in {"polled", "exit"}
            /\ writes = 0
            /\ conversions = 0
            /\ (pc = "exit" => exitCode = 1)
    /\ (pc = "exit" /\ exitCode = 0) =>
            /\ final_status.status = "completed"
            /\ Truthy(final_status.download_url)
            /\ recorded = 1

C11_Witness ==
    /\ pc = "exit"
    /\ exitCode = 1
    /\ final_status.status = "timeout"
    /\ writes = 0
    /\ conversions = 0

\* C12: a conversion that fails (non-zero exit, timeout, script missing or
\* not startable) does not fail the run: it ends with exit code 0, and the
\* record persisted before the conversion stays in models.json unchanged.
C12_ConversionFailureNotFatal ==
    /\ [](conversions = 1 =>
            /\ pc = "exit"
            /\ exitCode = 0
            /\ recorded = 1
            /\ store.file = "json"
            /\ store.models = written)
    /\ [][pc = "convert" => store' = store]_vars

C12_Witness ==
    /\ pc = "exit"
    /\ exitCode = 0
    /\ conversions = 1
    /\ convert_result.exists
    /\ convert_result.proc = "exit1"
    /\ ~convert_result.ok
    /\ store.models = written
    /\ Len(store.models) >= 1

\* C13: without the API credential the run ends with exit code 1 before
\* anything is sent: no job-creation request, no status query, no write of
\* models.json, no conversion.
C13_NoCredentialNoSubmission ==
    ~apiKey =>
        /\ pc \in {"check", "exit"}
        /\ (pc = "exit" => exitCode = 1)
        /\ submits = 0
        /\ polls = 0
        /\ responses = <<>>
        /\ events = <<>>
        /\ writes = 0
        /\ conversions = 0

C13_Witness ==
    /\ ~apiKey
    /\ pc = "exit"
    /\ exitCode = 1
    /\ submits = 0

\* C14: submit_generation_task sends one request; a task id comes back, and
\* polling starts, only when the answer is HTTP 200 with a non-empty taskId,
\* and that taskId is the task polled; after any other answer the run ends with
\* exit code 1, with no second request, no status query and no write.
C14_SubmitOnceOrFail ==
    /\ submits <= 1
    /\ (submits = 0) = (submitted = NoSubmit)
    /\ polls >= 1 =>
            /\ submits = 1
            /\ submitted.transport = "ok"
            /\ submitted.code = 200
            /\ Truthy(submitted.taskId)
            /\ task_id = submitted.taskId
    /\ (submits = 1 /\ ~(submitted.transport = "ok" /\ submitted.code = 200
                          /\ Truthy(submitted.taskId))) =>
            /\ pc = "exit"
            /\ exitCode = 1
            /\ polls = 0
            /\ responses = <<>>
            /\ writes = 0
            /\ conversions = 0

C14_Witness ==
    /\ submits = 1
    /\ submitted.transport = "ok"
    /\ submitted.code = 200
    /\ submitted.taskId = ""
    /\ pc = "exit"
    /\ exitCode = 1
    /\ polls = 0

Waiting(r) ==
    /\ r.transport = "ok"
    /\ r.code = 200
    /\ lower(Get(r.status, "unknown")) \in {"pending", "processing"}

\* C15: when the first k-1 answers are 'pending' or 'processing' and the k-th
\* is 'completed' with a download URL (a link that validates) and a format, the
\* poll returns exactly {status: completed, download_url, format}, after k
\* queries and k-1 sleeps.
C15_CompletesAfterWaiting ==
    (/\ pc = "polled"
     /\ \A i \in 1..(Len(responses) - 1) : Waiting(responses[i])
     /\ Completed(LastResponse)
     /\ Truthy(LastResponse.downloadUrl)
     /\ LastResponse.format # None
     /\ headSeen = "200") =>
        /\ final_status = [status |-> "completed",
                           download_url |-> LastResponse.downloadUrl,
                           format |-> LastResponse.format]
        /\ Queries = Len(responses)
        /\ Sleeps = Len(responses) - 1

\* C16: a run submits at most once and polls at most once, in the order
\* submit, poll, record, convert: polling only after a successful submission,
\* the write only after a 'completed' result with a reference, the conversion
\* only after the record is persisted and only with --convert; no step twice.
C16_OneSubmitOnePollInOrder ==
    /\ submits <= 1
    /\ polls <= 1
    /\ writes <= 1
    /\ conversions <= 1
    /\ polls <= submits
    /\ (pc \in {"poll", "sleep", "polled"} \/ responses # <<>>) => polls = 1
    /\ writes = 1 =>
            /\ polls = 1
            /\ final_status.status = "completed"
            /\ Truthy(final_status.download_url)
    /\ (pc = "convert" \/ conversions = 1) =>
            /\ recorded = 1
            /\ convertFlag

C16_Witness ==
    /\ pc = "exit"
    /\ exitCode = 0
    /\ submits = 1
    /\ polls = 1
    /\ writes = 1
    /\ recorded = 1
    /\ conversions = 1
    /\ convertFlag

\* C19: run_convert_script always reports an outcome: without convert.sh it
\* fails and starts nothing; exit code 0 is success; a non-zero exit code is a
\* failure; a timeout is a failure reported as a timeout, not as a non-zero
\* exit; and main goes on after it whatever the outcome.
C19_ConvertAlwaysReports ==
    conversions = 1 =>
        LET c == convert_result
        IN  /\ pc = "exit"
            /\ c.report \in {"not_found", "success", "failed", "timed_out", "run_error"}
            /\ c.ok = (c.report = "success")
            /\ ~c.exists => (~c.invoked /\ c.report = "not_found")
            /\ (c.exists /\ c.proc = "exit0") => (c.invoked /\ c.report = "success")
            /\ (c.exists /\ c.proc = "exit1") => (c.invoked /\ c.report = "failed")
            /\ (c.exists /\ c.proc = "timeout") => (c.invoked /\ c.report = "timed_out")

C19_Witness ==
    /\ conversions = 1
    /\ convert_result.exists
    /\ convert_result.proc = "timeout"
    /\ convert_result.report = "timed_out"
    /\ ~convert_result.ok
    /\ pc = "exit"

\* An answer after which the code returns 'completed', 'failed' or 'error'.
TerminalAnswer(r) ==
    \/ Completed(r)
    \/ Failed(r)
    \/ (urlopen(r) = "response" /\ r.code # 200)

\* C20: for every sequence of answers and every max_attempts >= 1 a poll makes
\* at most max_attempts queries and max_attempts - 1 sleeps, each loop step
\* uses up an attempt, it does not sleep after its last query, calls the link
\* validator at most once, and queries no more after a terminal answer.
C20_PollIsBounded ==
    /\ Queries = Len(responses)
    /\ Queries <= max_attempts
    /\ Sleeps <= max_attempts - 1
    /\ Count(events, "validate") <= 1
    /\ pc = "poll" => (attempt < max_attempts /\ Queries = attempt)
    /\ pc = "sleep" => (attempt < max_attempts - 1 /\ Queries = attempt + 1)
    /\ pc = "polled" => (LastEvent # "sleep" /\ final_status.status # None)
    /\ \A i \in 1..(Len(responses) - 1) : ~TerminalAnswer(responses[i])

C20_Witness ==
    /\ pc = "polled"
    /\ max_attempts = MaxAttemptsBound
    /\ Queries = max_attempts
    /\ Sleeps = max_attempts - 1
    /\ TransportFailed(responses[1])
    /\ Completed(LastResponse)
    /\ Count(events, "validate") = 1

\* 'Convert 3D Models' build-step entries in the project's buildPhases.
Entries(f) == Cardinality({i \in 1..Len(f.lines) : f.lines[i].k = "entry"})

\* C17: add_run_script_phase is idempotent: a second run finds the insertion of
\* the first and changes nothing, so the project is as the first run left it,
\* with no more than one 'Convert 3D Models' entry added.
C17_PatchIdempotent ==
    patchRuns >= 2 =>
        /\ project = afterFirst
        /\ Entries(project) <= Cardinality({i \in 1..Len(project.lines) :
                                               project.lines[i].k = "resources"})

\* C18: a run that changes project.pbxproj leaves in project.pbxproj.backup
\* the content the file had before the run, which differs from the new content.
C18_BackupHoldsOriginal ==
    (patchRuns >= 1 /\ patchWrote /\ project # before) =>
        /\ backup.exists
        /\ backup = before
        /\ backup # project

====
